---- MODULE Spec2Model ----
(***************************************************************************)
(* CodeGenerator (src/codegenerator.cpp): the translation loop of          *)
(* CodeGenerator::translate, the stubbing of the helpers module, the       *)
(* finalization pipeline and CodeGenerator::serialize.                     *)
(*                                                                         *)
(* Conventions.                                                            *)
(*  - assert() is compiled in: a failed assertion ends the run             *)
(*    (pc = "aborted", failure names the assertion).                       *)
(*  - size_t / uint64_t arithmetic is arithmetic modulo 2^AddrBits.        *)
(*  - InstructionTranslator, JumpTargetManager, VariableManager,           *)
(*    DebugHelper, the linker and libtinycode are collaborators whose      *)
(*    code is not in codegenerator.cpp: they are modelled from their       *)
(*    documented interface, with every choice they can make taken          *)
(*    nondeterministically.                                                *)
(*  - j is the 0-based index of the code; the pseudo-op at index j is      *)
(*    InstructionList[j + 1].                                              *)
(***************************************************************************)
EXTENDS Integers, Sequences, FiniteSets, TLC

\* ------------------------------------------------------------ bounds
AddrBits == 2       \* width of the modelled address word
MaxOps == 3         \* longest batch the decoder returns
MaxEmit == 1        \* most instructions one handler call appends in a row
MaxTotal == 4       \* most pseudo-ops the decoder returns in one run
MaxBlocks == 4      \* handlers open no further block beyond this many
MaxHelpers == 2     \* most functions of the helpers module
FinOps == 2         \* longest batch where the helpers module varies

Modulus == 2 ^ AddrBits
Addr == 0 .. (Modulus - 1)
Wrap(x) == (x + Modulus) % Modulus

Range(s) == {s[i] : i \in DOMAIN s}

\* ------------------------------------------------------------ state
VARIABLES
  pc,               \* position in translate() / serialize()
  failure,          \* the assertion (or crash) that ended the run, or "none"
  env,              \* what the environment may do in this run (fixed)
  LoadAddress, CodeSize, VirtualAddress,
  CodeOffset,       \* CodePointer - Code.data(), modulo the word size
  Entry,            \* block to translate into, NoBlock for nullptr
  insertBlock,      \* Builder.GetInsertBlock()
  blocks,           \* MainFunction: block id -> sequence of instructions
  jumpTargets,      \* JumpTargetManager: address -> block id
  pending,          \* JumpTargetManager: addresses not yet handed out
  InstructionList, ConsumedSize, NextPC,
  j, StopTranslation, MDOriginalInstr,
  Blocks,           \* blocks touched by the pseudo-op being translated
  region,           \* number of the current loop iteration (from 1)
  decoded,          \* pseudo-ops decoded so far, over all iterations
  marker,           \* index of the last instruction-start marker handled
  HelpersModule,    \* name -> function, for the functions it defines
  finLog,           \* finalization steps run so far, in order
  serialized,       \* what serialize() did, or NotSerialized
  nameIdx,          \* position in the name list being stubbed
  pass,             \* number of the stubbing pass in progress
  firstPass         \* the helpers module as the first stubbing pass left it

vars == <<pc, failure, env, LoadAddress, CodeSize, VirtualAddress, CodeOffset,
          Entry, insertBlock, blocks, jumpTargets, pending, InstructionList,
          ConsumedSize, NextPC, j, StopTranslation, MDOriginalInstr, Blocks,
          region, decoded, marker, HelpersModule, finLog, serialized, nameIdx, pass,
          firstPass>>

addrVars == <<LoadAddress, CodeSize>>
loopVars == <<InstructionList, ConsumedSize, NextPC, j, StopTranslation,
              MDOriginalInstr, Blocks, region, decoded, marker>>
irVars == <<insertBlock, blocks, jumpTargets, pending>>
stubVars == <<HelpersModule, nameIdx, pass, firstPass>>

NoBlock == 0
EntryBlock == 1
NoMD == <<0, 0>>
NotSerialized == [done |-> FALSE, copy |-> FALSE, opened |-> FALSE,
                  written |-> FALSE, reported |-> FALSE]

\* ------------------------------------------------------------ IR
\* An instruction: its kind, its branch target (-1: none), its two
\* metadata attachments, and where it was emitted: em = <<region, index of
\* the pseudo-op, index of the marker opening the interval>>, by = who
\* created it.
Instr(k, tgt, em, by) ==
  [k |-> k, tgt |-> tgt, oi |-> NoMD, pi |-> NoMD, em |-> em, by |-> by]

Terminators == {"br", "ret", "unreachable", "switch"}

hasMetadata(i) == i.oi # NoMD \/ i.pi # NoMD

HasTerminator(b) == Len(b) > 0 /\ b[Len(b)].k \in Terminators

\* Instruction *Delimiter = Builder.CreateUnreachable();
Delimiter == Instr("delimiter", -1, <<0, 0, 0>>, "orchestrator")

\* ------------------------------------------------------------ tagging
\* while (I != Block->begin() && !(--I)->hasMetadata()) setMetadata(...)
LastTagged(b) ==
  LET S == {i \in DOMAIN b : hasMetadata(b[i])}
  IN IF S = {} THEN 0 ELSE CHOOSE i \in S : \A k \in S : k <= i

\* The walk not stopping at an instruction that has metadata.
TagBlock_All(b, oi, ptc) ==
  [i \in DOMAIN b |-> [b[i] EXCEPT !.oi = oi, !.pi = ptc]]

TagBlock(b, oi, ptc) ==
  [i \in DOMAIN b |->
     IF i > LastTagged(b) THEN [b[i] EXCEPT !.oi = oi, !.pi = ptc] ELSE b[i]]

\* for (BasicBlock *Block : Blocks) ...
SetMetadata(bs, touched, oi, ptc) ==
  [b \in DOMAIN bs |->
     IF b \in Range(touched) THEN TagBlock(bs[b], oi, ptc) ELSE bs[b]]

\* ------------------------------------------------------------ collaborators
\* The part of the state that the handlers and the registry work on.
IR == [blocks |-> blocks, ins |-> insertBlock, touched |-> Blocks,
       jt |-> jumpTargets, pend |-> pending]

AppendTo(ir, i) == [ir EXCEPT !.blocks[ir.ins] = Append(@, i)]

RECURSIVE EmitN(_, _, _, _)
EmitN(ir, n, k, em) ==
  IF n = 0 THEN ir
  ELSE EmitN(AppendTo(ir, Instr(k, -1, em, "handler")), n - 1, k, em)

\* JumpTargetManager::getBlockAt: the block of an address, created (and
\* recorded as still to translate) when the address is new.
GetBlockAt(ir, a) ==
  IF a \in DOMAIN ir.jt THEN ir
  ELSE [ir EXCEPT !.blocks = Append(@, <<>>),
                  !.jt = @ @@ (a :> (Len(ir.blocks) + 1)),
                  !.pend = @ \cup {a}]

\* Builder.CreateBr(JumpTargets.getBlockAt(a))
CreateBr(ir, a, em, by) == AppendTo(GetBlockAt(ir, a), Instr("br", a, em, by))

\* What one call of InstructionTranslator::translate may do: append
\* instructions, branch to the block of an address, end the block, or close
\* the block with a branch into a new block that it lists in Blocks and goes
\* on in.
TranslateEffects ==
  [t : {"emit"}, n : 0 .. env.maxEmit, a : {0}]
    \cup [t : {"branch"}, n : {0}, a : env.jumps]
    \cup [t : {"ret"}, n : {0}, a : {0}]
    \cup (IF Len(blocks) < MaxBlocks
          THEN [t : {"fanout"}, n : {0}, a : {0}] ELSE {})

ApplyEffect(ir, e, em) ==
  CASE e.t = "emit" -> EmitN(ir, e.n, "ir", em)
    [] e.t = "branch" -> CreateBr(ir, e.a, em, "handler")
    [] e.t = "ret" -> AppendTo(ir, Instr("ret", -1, em, "handler"))
    [] e.t = "fanout" ->
         LET closed == AppendTo(ir, Instr("br", -1, em, "handler"))
             fresh == Len(closed.blocks) + 1
             opened == [closed EXCEPT !.blocks = Append(@, <<>>),
                                      !.ins = fresh,
                                      !.touched = Append(@, fresh)]
         IN AppendTo(opened, Instr("ir", -1, em, "handler"))

\* InstructionTranslator::closeLastInstruction(PC): a trailing block without
\* an explicit branch gets its successor, the block of PC.
CloseLastInstruction(ir, PC, em) ==
  IF HasTerminator(ir.blocks[ir.ins]) THEN ir
  ELSE CreateBr(ir, PC, em, "close")

\* ------------------------------------------------------------ decoder
\* ptc.translate: a batch opens with an instruction-start marker.
Opcodes == {"discard", "debug_insn_start", "call", "other"}

RECURSIVE Tails(_)
Tails(n) ==
  IF n = 0 THEN {<<>>}
  ELSE Tails(n - 1) \cup {Append(s, o) : s \in Tails(n - 1), o \in Opcodes}

Batches(n) == {<<"debug_insn_start">> \o t : t \in Tails(n - 1)}

\* ------------------------------------------------------------ translate()
\* CodeEnd > CodePointer. CodePointer is Code.data() + CodeOffset; past
\* Code.data() + Code.size() the pointer arithmetic of line 235 is undefined
\* and the comparison may come out either way.
AssertCodeEndOutcomes(offset, size) ==
  IF offset <= size THEN {size > offset} ELSE BOOLEAN

\* The comparison off by one.
IsLastInstruction_OffByOne(jj, count) == jj = count

\* j == InstructionList->instruction_count - 1
IsLastInstruction(jj, count) == jj = count - 1

\* The loop condition without its second conjunct.
LoopContinues_IgnoreStop(jj, count, stop) == jj < count

\* j < InstructionList->instruction_count && !StopTranslation
LoopContinues(jj, count, stop) == jj < count /\ ~stop

SetIR(ir) ==
  /\ blocks' = ir.blocks
  /\ insertBlock' = ir.ins
  /\ jumpTargets' = ir.jt
  /\ pending' = ir.pend

\* lines 94-140: the call of translate, up to the loop.
Translate ==
  /\ pc = "ready"
  /\ \E la \in env.loads, size \in env.sizes, va \in env.starts :
       /\ LoadAddress' = la
       /\ CodeSize' = size
       /\ VirtualAddress' = va
  /\ CodeOffset' = 0
  /\ blocks' = <<<<Delimiter>>>>
  /\ Entry' = EntryBlock
  /\ insertBlock' = EntryBlock
  /\ jumpTargets' = <<>>
  /\ pending' = {}
  /\ pc' = "loop"
  /\ UNCHANGED <<failure, env, loopVars, stubVars, finLog, serialized>>

\* lines 142-159: one iteration starts; the assertion, then the decoder.
AssertionFails ==
  /\ pc = "loop"
  /\ FALSE \in AssertCodeEndOutcomes(CodeOffset, CodeSize)
  /\ pc' = "aborted"
  /\ failure' = "CodeEnd > CodePointer"
  /\ insertBlock' = Entry
  /\ UNCHANGED <<env, addrVars, VirtualAddress, CodeOffset, Entry, blocks,
                 jumpTargets, pending, loopVars, stubVars, finLog, serialized>>

BeginIteration ==
  /\ pc = "loop"
  /\ TRUE \in AssertCodeEndOutcomes(CodeOffset, CodeSize)
  /\ insertBlock' = Entry
  /\ \E batch \in Batches(env.maxOps), consumed \in env.consumed :
       /\ decoded + Len(batch) <= env.maxTotal
       /\ InstructionList' = batch
       /\ decoded' = decoded + Len(batch)
       /\ ConsumedSize' = consumed
       /\ NextPC' = Wrap(VirtualAddress + consumed)
  /\ j' = 0
  /\ MDOriginalInstr' = NoMD
  /\ StopTranslation' = FALSE
  /\ region' = region + 1
  /\ pc' = "first"
  /\ UNCHANGED <<failure, env, addrVars, VirtualAddress, CodeOffset, Entry,
                 blocks, jumpTargets, pending, Blocks, marker, stubVars,
                 finLog, serialized>>

\* lines 164-170: the first instruction-start marker, outside the loop.
FirstInstruction ==
  /\ pc = "first"
  /\ \E n \in 0 .. env.maxEmit, stop \in BOOLEAN :
       /\ SetIR(EmitN(IR, n, "newpc", <<region, 0, 0>>))
       /\ StopTranslation' = stop
  /\ MDOriginalInstr' = <<region, 0>>
  /\ marker' = 0
  /\ j' = 1
  /\ pc' = "dispatch"
  /\ UNCHANGED <<failure, env, addrVars, VirtualAddress, CodeOffset, Entry,
                 InstructionList, ConsumedSize, NextPC, Blocks, region,
                 decoded, stubVars, finLog, serialized>>

\* Blocks.clear(); Blocks.push_back(Builder.GetInsertBlock());
Cleared == [IR EXCEPT !.touched = <<insertBlock>>]

\* lines 204-221: the pseudo-op's metadata on what it appended; j++.
Annotate(ir, oi) ==
  /\ blocks' = SetMetadata(ir.blocks, ir.touched, oi, <<region, j>>)
  /\ insertBlock' = ir.ins
  /\ jumpTargets' = ir.jt
  /\ pending' = ir.pend
  /\ Blocks' = ir.touched
  /\ j' = j + 1

Dispatching(op) ==
  /\ pc = "dispatch"
  /\ LoopContinues(j, Len(InstructionList), StopTranslation)
  /\ InstructionList[j + 1] = op

\* case PTC_INSTRUCTION_op_discard
DispatchDiscard ==
  /\ Dispatching("discard")
  /\ Annotate(Cleared, MDOriginalInstr)
  /\ UNCHANGED <<pc, failure, env, addrVars, VirtualAddress, CodeOffset,
                 Entry, InstructionList, ConsumedSize, NextPC,
                 StopTranslation, MDOriginalInstr, region, decoded, marker,
                 stubVars, finLog, serialized>>

\* case PTC_INSTRUCTION_op_debug_insn_start
DispatchInsnStart ==
  /\ Dispatching("debug_insn_start")
  /\ \E n \in 0 .. env.maxEmit, stop \in BOOLEAN :
       /\ Annotate(EmitN(Cleared, n, "newpc", <<region, j, j>>), <<region, j>>)
       /\ StopTranslation' = stop
  /\ MDOriginalInstr' = <<region, j>>
  /\ marker' = j
  /\ UNCHANGED <<pc, failure, env, addrVars, VirtualAddress, CodeOffset,
                 Entry, InstructionList, ConsumedSize, NextPC, region,
                 decoded, stubVars, finLog, serialized>>

\* case PTC_INSTRUCTION_op_call
DispatchCall ==
  /\ Dispatching("call")
  /\ \E n \in 0 .. env.maxEmit :
       LET called == EmitN(Cleared, n, "ir", <<region, j, marker>>)
       IN Annotate(IF IsLastInstruction(j, Len(InstructionList))
                   THEN CreateBr(called, NextPC, <<region, j, marker>>,
                                 "orchestrator")
                   ELSE called,
                   MDOriginalInstr)
  /\ UNCHANGED <<pc, failure, env, addrVars, VirtualAddress, CodeOffset,
                 Entry, InstructionList, ConsumedSize, NextPC,
                 StopTranslation, MDOriginalInstr, region, decoded, marker,
                 stubVars, finLog, serialized>>

\* default
DispatchDefault ==
  /\ Dispatching("other")
  /\ \E e \in TranslateEffects :
       Annotate(ApplyEffect(Cleared, e, <<region, j, marker>>),
                MDOriginalInstr)
  /\ UNCHANGED <<pc, failure, env, addrVars, VirtualAddress, CodeOffset,
                 Entry, InstructionList, ConsumedSize, NextPC,
                 StopTranslation, MDOriginalInstr, region, decoded, marker,
                 stubVars, finLog, serialized>>

\* line 223, once the loop over the batch has ended.
CloseLast ==
  /\ pc = "dispatch"
  /\ ~LoopContinues(j, Len(InstructionList), StopTranslation)
  /\ SetIR(CloseLastInstruction(IR, NextPC, <<region, j, marker>>))
  /\ pc' = "passes"
  /\ UNCHANGED <<failure, env, addrVars, VirtualAddress, CodeOffset, Entry,
                 loopVars, stubVars, finLog, serialized>>

\* lines 226-229: SROA and the direct-branches pass on the region.
RegionPasses ==
  /\ pc = "passes"
  /\ pc' = "peek"
  /\ UNCHANGED <<failure, env, addrVars, VirtualAddress, CodeOffset, Entry,
                 irVars, loopVars, stubVars, finLog, serialized>>

\* lines 231-236: the registry's next target, or the end of the loop.
WhileEntry(e) == e # NoBlock

AfterPeek(e) == IF WhileEntry(e) THEN "loop" ELSE "strace"

PeekTarget ==
  /\ pc = "peek"
  /\ \/ /\ pending = {}
        /\ Entry' = NoBlock
        /\ VirtualAddress' = 0
        /\ pending' = pending
     \/ \E a \in pending :
          /\ Entry' = jumpTargets[a]
          /\ VirtualAddress' = a
          /\ pending' = pending \ {a}
  /\ CodeOffset' = Wrap(VirtualAddress' - LoadAddress)
  /\ pc' = AfterPeek(Entry')
  /\ UNCHANGED <<failure, env, addrVars, insertBlock, blocks, jumpTargets,
                 loopVars, stubVars, finLog, serialized>>

\* ------------------------------------------------------------ stubbing
NoOpFunctionNames ==
  <<"qemu_log_mask", "fprintf", "cpu_dump_state", "mmap_lock", "mmap_unlock",
    "pthread_cond_broadcast", "pthread_mutex_unlock", "pthread_mutex_lock",
    "pthread_cond_wait", "pthread_cond_signal", "cpu_exit", "start_exclusive",
    "process_pending_signals", "end_exclusive">>

AbortFunctionNames ==
  <<"cpu_restore_state", "gdb_handlesig", "queue_signal", "cpu_mips_exec",
    "print_syscall", "print_syscall_ret", "EmulateAll", "cpu_abort",
    "do_arm_semihosting">>

\* lines 290-292
FixedStubs ==
  <<[name |-> "page_check_range", result |-> "1"],
    [name |-> "page_get_flags", result |-> "0xffffffff"]>>

\* A function of the helpers module: its return type, its linkage and its
\* body, a sequence of blocks of instructions.
Function(ret) ==
  [ret |-> ret, linkage |-> "external",
   body |-> <<<<<<"orig", "">>>>, <<<<"orig", "">>>>>>]

\* HelpersModule->getFunction(Name) != nullptr
Defined(m, name) == name \in DOMAIN m

\* replaceFunction: internal linkage, the body dropped, one new empty block.
replaceFunction(f) == [f EXCEPT !.linkage = "internal", !.body = <<<<>>>>]

\* ReturnInst::Create(..., ResultValue, Body)
WithRet(f, val) == [f EXCEPT !.body[1] = Append(@, <<"ret", val>>)]

\* The else branch of replaceFunctionWithRet, line 88: what the run does for
\* a return type that is neither void nor an integer type. The assertion is
\* on a string literal, which is never null: it cannot fail. ResultValue is
\* then read uninitialized: a null value, any other value, or a crash inside
\* ReturnInst::Create.
OtherReturnType(f) ==
  {[fn |-> WithRet(f, "void"), fail |-> "none"],
   [fn |-> WithRet(f, "garbage"), fail |-> "none"],
   [fn |-> f, fail |-> "crash"]}

\* replaceFunctionWithRet on a function that exists: the outcomes.
replaceFunctionWithRet(f, Result) ==
  LET g == replaceFunction(f)
  IN CASE g.ret = "void" ->
            IF Result = "0" THEN {[fn |-> WithRet(g, "void"), fail |-> "none"]}
            ELSE {[fn |-> g, fail |-> "Result == 0"]}
       [] g.ret = "int" -> {[fn |-> WithRet(g, Result), fail |-> "none"]}
       [] OTHER -> OtherReturnType(g)

\* The assertion placed after replaceFunction.
TrapFunction_AssertLate(m, f) ==
  IF ~Defined(m, "abort")
  THEN [fn |-> replaceFunction(f), fail |-> "abort != nullptr"]
  ELSE [fn |-> [replaceFunction(f) EXCEPT
                  !.body[1] = <<<<"call", "abort">>, <<"unreachable", "">>>>],
        fail |-> "none"]

\* The body of the loop over AbortFunctionNames for a function that exists.
TrapFunction(m, f) ==
  IF ~Defined(m, "abort") THEN [fn |-> f, fail |-> "abort != nullptr"]
  ELSE [fn |-> [replaceFunction(f) EXCEPT
                  !.body[1] = <<<<"call", "abort">>, <<"unreachable", "">>>>],
        fail |-> "none"]

\* One call of a stubbing step on the module: the module it leaves and
\* whether the run goes on.
Stubbed(name, o, next) ==
  /\ HelpersModule' = [HelpersModule EXCEPT ![name] = o.fn]
  /\ failure' = o.fail
  /\ pc' = IF o.fail = "none" THEN next ELSE "aborted"
  /\ nameIdx' = IF next = pc THEN nameIdx + 1 ELSE 1

Skipped(next) ==
  /\ pc' = next
  /\ nameIdx' = IF next = pc THEN nameIdx + 1 ELSE 1
  /\ UNCHANGED <<HelpersModule, failure>>

NextStub(names, after) == IF nameIdx < Len(names) THEN pc ELSE after

notStub == <<env, addrVars, VirtualAddress, CodeOffset, Entry, irVars,
             loopVars, serialized, pass, firstPass>>

\* lines 270-275: the do_strace global.
DeclareStrace ==
  /\ pc = "strace"
  /\ pc' = "noop"
  /\ nameIdx' = 1
  /\ UNCHANGED <<failure, HelpersModule, finLog, notStub>>

\* lines 277-278, one name of NoOpFunctionNames.
StubNoOp ==
  /\ pc = "noop"
  /\ LET name == NoOpFunctionNames[nameIdx]
         next == NextStub(NoOpFunctionNames, "trap")
     IN IF Defined(HelpersModule, name)
        THEN \E o \in replaceFunctionWithRet(HelpersModule[name], "0") :
               Stubbed(name, o, next)
        ELSE Skipped(next)
  /\ UNCHANGED <<finLog, notStub>>

\* lines 280-288, one name of AbortFunctionNames.
StubTrap ==
  /\ pc = "trap"
  /\ LET name == AbortFunctionNames[nameIdx]
         next == NextStub(AbortFunctionNames, "fixed")
     IN IF Defined(HelpersModule, name)
        THEN Stubbed(name, TrapFunction(HelpersModule, HelpersModule[name]),
                     next)
        ELSE Skipped(next)
  /\ UNCHANGED <<finLog, notStub>>

\* lines 290-292, one of the two calls.
StubFixed ==
  /\ pc = "fixed"
  /\ LET stub == FixedStubs[nameIdx]
         next == NextStub(FixedStubs, "link")
     IN /\ IF Defined(HelpersModule, stub.name)
           THEN \E o \in replaceFunctionWithRet(HelpersModule[stub.name],
                                                stub.result) :
                  Stubbed(stub.name, o, next)
           ELSE Skipped(next)
        /\ finLog' = IF pc' = "link" THEN Append(finLog, "stub") ELSE finLog
  /\ UNCHANGED notStub

\* ------------------------------------------------------------ finalization
notIR == <<env, addrVars, VirtualAddress, CodeOffset, Entry, loopVars,
           stubVars, serialized>>

\* The result of linkInModule not looked at.
AfterLink_Unchecked(Result) == "cleanup"

\* assert(!Result && "Linking failed")
AfterLink(Result) == IF Result THEN "aborted" ELSE "cleanup"

\* lines 294-297; Result is what linkInModule returns, true for an error.
Link ==
  /\ pc = "link"
  /\ \E Result \in BOOLEAN :
       /\ pc' = AfterLink(Result)
       /\ failure' = IF Result THEN "Linking failed" ELSE failure
  /\ finLog' = Append(finLog, "link")
  /\ UNCHANGED <<irVars, notIR>>

\* lines 299-303: SROA, the CPU state usage pass, dead code elimination.
Cleanup ==
  /\ pc = "cleanup"
  /\ pc' = "erase"
  /\ finLog' = Append(finLog, "cleanup")
  /\ UNCHANGED <<failure, irVars, notIR>>

Without(b, kind) == SelectSeq(b, LAMBDA i : i.k # kind)

\* line 306: Delimiter->eraseFromParent()
EraseDelimiter ==
  /\ pc = "erase"
  /\ blocks' = [blocks EXCEPT ![EntryBlock] = Without(@, "delimiter")]
  /\ pc' = "indirect"
  /\ finLog' = Append(finLog, "erase")
  /\ UNCHANGED <<failure, insertBlock, jumpTargets, pending, notIR>>

\* line 308: JumpTargets.translateIndirectJumps(); when the function holds
\* indirect jumps, they become a switch in a block of its own.
IndirectJumps ==
  /\ pc = "indirect"
  /\ \E any \in BOOLEAN :
       blocks' = IF any
                 THEN Append(blocks, <<Instr("switch", -1, <<0, 0, 0>>,
                                             "registry")>>)
                 ELSE blocks
  /\ pc' = "markers"
  /\ finLog' = Append(finLog, "indirect")
  /\ UNCHANGED <<failure, insertBlock, jumpTargets, pending, notIR>>

\* line 310: Translator.removeNewPCMarkers()
RemoveMarkers ==
  /\ pc = "markers"
  /\ blocks' = [b \in DOMAIN blocks |-> Without(blocks[b], "newpc")]
  /\ pc' = "debuginfo"
  /\ finLog' = Append(finLog, "markers")
  /\ UNCHANGED <<failure, insertBlock, jumpTargets, pending, notIR>>

\* line 312: Debug->generateDebugInfo(); translate returns.
DebugInfo ==
  /\ pc = "debuginfo"
  /\ pc' = "done"
  /\ finLog' = Append(finLog, "debuginfo")
  /\ UNCHANGED <<failure, irVars, notIR>>

\* ------------------------------------------------------------ serialize()
\* copy is what Debug->copySource() returns and opened whether the
\* std::ofstream could open OutputPath. Nothing looks at the stream's state
\* and serialize returns void: no outcome reports a failure.
Serialize ==
  /\ pc = "done"
  /\ \E copy \in BOOLEAN, opened \in BOOLEAN :
       serialized' = [done |-> TRUE, copy |-> copy,
                      opened |-> ~copy /\ opened,
                      written |-> ~copy /\ opened,
                      reported |-> FALSE]
  /\ pc' = "serialized"
  /\ UNCHANGED <<failure, env, addrVars, VirtualAddress, CodeOffset, Entry,
                 irVars, loopVars, stubVars, finLog>>

\* ------------------------------------------------------------ initial states
\* The helpers module is whatever parseIRFile read (line 62): up to
\* MaxHelpers functions out of these names, listed and not, of any return
\* type.
CandidateNames ==
  {"fprintf", "cpu_exit", "cpu_restore_state", "cpu_abort",
   "page_check_range", "page_get_flags", "abort", "helper_ld"}

ReturnTypes == {"void", "int", "other"}

Declarations == CandidateNames \X ReturnTypes

RECURSIVE DeclSets(_)
DeclSets(n) ==
  IF n = 0 THEN {{}}
  ELSE DeclSets(n - 1)
         \cup {S \cup {d} : S \in DeclSets(n - 1), d \in Declarations}

ModuleOf(S) ==
  [n \in {d[1] : d \in S} |-> Function((CHOOSE d \in S : d[1] = n)[2])]

Modules(n) ==
  {ModuleOf(S) : S \in {T \in DeclSets(n) :
                          \A d, e \in T : d[1] = e[1] => d = e}}

\* A helpers module as QEMU's are: every function void or integer.
UsualModule ==
  ModuleOf({<<"fprintf", "int">>, <<"cpu_exit", "void">>,
            <<"cpu_abort", "void">>, <<"page_check_range", "int">>,
            <<"abort", "void">>, <<"helper_ld", "int">>})

Constructed ==
  /\ failure = "none"
  /\ LoadAddress = 0 /\ CodeSize = 0 /\ VirtualAddress = 0 /\ CodeOffset = 0
  /\ Entry = NoBlock
  /\ insertBlock = NoBlock
  /\ blocks = <<>>
  /\ jumpTargets = <<>>
  /\ pending = {}
  /\ InstructionList = <<>>
  /\ ConsumedSize = 0 /\ NextPC = 0
  /\ j = 0
  /\ StopTranslation = FALSE
  /\ MDOriginalInstr = NoMD
  /\ Blocks = <<>>
  /\ region = 0
  /\ decoded = 0
  /\ marker = 0
  /\ finLog = <<>>
  /\ serialized = NotSerialized
  /\ nameIdx = 1
  /\ pass = 1
  /\ firstPass = <<>>

\* Batches of every shape in a fixed buffer, one helpers module.
Init ==
  /\ Constructed
  /\ pc = "ready"
  /\ env = [maxOps |-> MaxOps, maxEmit |-> MaxEmit, maxTotal |-> MaxTotal,
            loads |-> {1}, sizes |-> {2}, starts |-> {1}, consumed |-> {1},
            jumps |-> {2, 3}]
  /\ HelpersModule = UsualModule

Next ==
  \/ Translate
  \/ AssertionFails
  \/ BeginIteration
  \/ FirstInstruction
  \/ DispatchDiscard
  \/ DispatchInsnStart
  \/ DispatchCall
  \/ DispatchDefault
  \/ CloseLast
  \/ RegionPasses
  \/ PeekTarget
  \/ DeclareStrace
  \/ StubNoOp
  \/ StubTrap
  \/ StubFixed
  \/ Link
  \/ Cleanup
  \/ EraseDelimiter
  \/ IndirectJumps
  \/ RemoveMarkers
  \/ DebugInfo
  \/ Serialize

Spec == Init /\ [][Next]_vars

\* Helpers modules of every shape, short batches.
InitFin ==
  /\ Constructed
  /\ pc = "ready"
  /\ env = [maxOps |-> FinOps, maxEmit |-> 0, maxTotal |-> FinOps,
            loads |-> {1}, sizes |-> {0, 2}, starts |-> {1}, consumed |-> {1},
            jumps |-> {2}]
  /\ HelpersModule \in Modules(MaxHelpers)

SpecFin == InitFin /\ [][Next]_vars

\* Buffers and addresses of every shape, short batches.
InitAddr ==
  /\ Constructed
  /\ pc = "ready"
  /\ env = [maxOps |-> FinOps, maxEmit |-> 0, maxTotal |-> FinOps + 1,
            loads |-> Addr, sizes |-> 0 .. 2, starts |-> Addr,
            consumed |-> {1, 2}, jumps |-> Addr]
  /\ HelpersModule = UsualModule

SpecAddr == InitAddr /\ [][Next]_vars

\* The stubbing steps of lines 277-292 applied to a helpers module, and
\* applied again to what they left.
InitStub ==
  /\ Constructed
  /\ pc = "strace"
  /\ env = [maxOps |-> 1, maxEmit |-> 0, maxTotal |-> 1,
            loads |-> {1}, sizes |-> {2}, starts |-> {1}, consumed |-> {1},
            jumps |-> {2}]
  /\ HelpersModule \in Modules(MaxHelpers)

Restub ==
  /\ pc = "link"
  /\ pass = 1
  /\ pass' = 2
  /\ firstPass' = HelpersModule
  /\ pc' = "noop"
  /\ nameIdx' = 1
  /\ UNCHANGED <<failure, env, addrVars, VirtualAddress, CodeOffset, Entry,
                 irVars, loopVars, HelpersModule, finLog, serialized>>

NextStubbing ==
  \/ DeclareStrace
  \/ StubNoOp
  \/ StubTrap
  \/ StubFixed
  \/ Restub

SpecStub == InitStub /\ [][NextStubbing]_vars

\* ------------------------------------------------------------ properties
Positions(bs) == UNION {{<<b, i>> : i \in DOMAIN bs[b]} : b \in DOMAIN bs}

At(p) == blocks[p[1]][p[2]]

IsPrefix(s, t) == Len(s) <= Len(t) /\ SubSeq(t, 1, Len(s)) = s

Translating == pc \in {"first", "dispatch", "passes", "peek"}

Returned == pc \in {"done", "serialized"}

\* Branches that translate itself created (line 197).
Synthesized(bs) ==
  {p \in Positions(bs) :
     bs[p[1]][p[2]].by = "orchestrator" /\ bs[p[1]][p[2]].k = "br"}

CallDispatched ==
  /\ pc = "dispatch"
  /\ j < Len(InstructionList)
  /\ InstructionList[j + 1] = "call"
  /\ j' = j + 1

\* C1: the dispatch of a call pseudo-op that is the last entry of the batch
\* (j = instruction_count - 1) ends with one branch created by translate,
\* the last instruction of the current block, to the registry's block of
\* VirtualAddress + ConsumedSize; the dispatch of a call anywhere else in
\* the batch creates no such branch.
C1_CallFallthrough ==
  [][CallDispatched =>
       IF j = Len(InstructionList) - 1
       THEN LET b == blocks'[insertBlock']
                last == b[Len(b)]
            IN /\ Len(b) > 0
               /\ last.k = "br" /\ last.by = "orchestrator"
               /\ last.tgt = Wrap(VirtualAddress + ConsumedSize)
               /\ last.tgt \in DOMAIN jumpTargets'
               /\ Synthesized(blocks') = Synthesized(blocks)
                                           \cup {<<insertBlock', Len(b)>>}
               /\ <<insertBlock', Len(b)>> \notin Synthesized(blocks)
       ELSE Synthesized(blocks') = Synthesized(blocks)]_vars

C1_Witness ==
  /\ pc = "dispatch"
  /\ j = Len(InstructionList)
  /\ InstructionList[j] = "call"
  /\ LET b == blocks[insertBlock]
     IN Len(b) > 0 /\ b[Len(b)].by = "orchestrator" /\ b[Len(b)].tgt = NextPC

\* C2: when translate has returned, every instruction of the function
\* carries an original-instruction tag and a pseudo-op-line tag.
C2_AllAnnotated ==
  Returned => \A p \in Positions(blocks) : At(p).oi # NoMD /\ At(p).pi # NoMD

\* Instructions that the dispatch of a pseudo-op appended, the first marker
\* of the batch included or not.
Dispatched(first) ==
  {p \in Positions(blocks) :
     /\ At(p).by \in {"handler", "orchestrator"}
     /\ At(p).em[1] >= 1
     /\ first \/ At(p).em[2] >= 1}

SameInterval(x, y) == x.em[1] = y.em[1] /\ x.em[3] = y.em[3]

\* C3: the instructions emitted between two consecutive instruction-start
\* markers of a batch share both tags, and their original-instruction tag
\* is the one returned for the marker that opens the interval. (Stated of
\* the instructions that the dispatch loop appended, which are annotated in
\* the step that appends them.)
C3_SamePair ==
  \A p, q \in Dispatched(FALSE) :
    /\ At(p).oi = <<At(p).em[1], At(p).em[3]>>
    /\ SameInterval(At(p), At(q)) => At(p).oi = At(q).oi /\ At(p).pi = At(q).pi

\* C3, amended: every instruction appended by the dispatch of a pseudo-op
\* other than the first of its batch carries the original-instruction tag
\* returned for the marker that opens its interval and the pseudo-op-line
\* tag of the pseudo-op that appended it: instructions of one interval share
\* the first tag, instructions of one pseudo-op share both.
C3_PerPseudoOp ==
  \A p \in Dispatched(FALSE) :
    /\ At(p).oi = <<At(p).em[1], At(p).em[3]>>
    /\ At(p).pi = <<At(p).em[1], At(p).em[2]>>

C3_Witness ==
  \E p, q \in Dispatched(FALSE) :
    /\ SameInterval(At(p), At(q))
    /\ At(p).em[2] # At(q).em[2]
    /\ At(p).oi = At(q).oi /\ At(p).oi # NoMD
    /\ At(p).pi # At(q).pi

Stopped == StopTranslation /\ pc \in {"dispatch", "passes", "peek"}

\* C9: once an instruction-start handler has returned stop = true, no
\* further pseudo-op of the batch is dispatched, nothing more is appended to
\* the block, and the run goes on: the passes run, then the next target.
C9_NothingAppended ==
  [][Stopped =>
       /\ j' = j
       /\ blocks'[insertBlock] = blocks[insertBlock]
       /\ pc' # "aborted"]_vars

\* C9, amended: once an instruction-start handler has returned stop = true,
\* no further pseudo-op of the batch is dispatched and nothing is appended
\* to the block but, when it has no terminator, the one branch of
\* closeLastInstruction to the next sequential address; the run is not
\* aborted: the passes of the region run and the loop goes on with a
\* pending target of the registry, or ends when there is none.
C9_StopEndsBatch ==
  [][Stopped =>
       /\ j' = j /\ InstructionList' = InstructionList
       /\ failure' = "none"
       /\ pc = "dispatch" =>
            /\ pc' = "passes"
            /\ \/ blocks'[insertBlock] = blocks[insertBlock]
               \/ /\ ~HasTerminator(blocks[insertBlock])
                  /\ Len(blocks'[insertBlock]) = Len(blocks[insertBlock]) + 1
                  /\ LET br == blocks'[insertBlock][Len(blocks'[insertBlock])]
                     IN br.k = "br" /\ br.by = "close" /\ br.tgt = NextPC
                  /\ SubSeq(blocks'[insertBlock], 1, Len(blocks[insertBlock]))
                       = blocks[insertBlock]
       /\ pc = "passes" => pc' = "peek" /\ blocks' = blocks
       /\ pc = "peek" =>
            /\ blocks' = blocks
            /\ IF pending = {} THEN pc' = "strace"
               ELSE /\ pc' = "loop"
                    /\ VirtualAddress' \in pending
                    /\ Entry' = jumpTargets[VirtualAddress']]_vars

C9_Witness ==
  /\ StopTranslation
  /\ pc = "loop"
  /\ j < Len(InstructionList)
  /\ region >= 1

InBuffer(a) == LoadAddress <= a /\ a < LoadAddress + CodeSize

\* C10: in every iteration of the translation loop the address handed to
\* the decoder lies in the mapped buffer, and the assertion
\* CodeEnd > CodePointer fails only for an address outside of it.
C10_AddressInBuffer ==
  /\ Translating => InBuffer(VirtualAddress)
  /\ failure = "CodeEnd > CodePointer" => ~InBuffer(VirtualAddress)

ListedNames ==
  Range(NoOpFunctionNames) \cup Range(AbortFunctionNames)
    \cup {FixedStubs[i].name : i \in DOMAIN FixedStubs}

\* The names handed to replaceFunctionWithRet.
RetStubbed ==
  Range(NoOpFunctionNames) \cup {FixedStubs[i].name : i \in DOMAIN FixedStubs}

HasRet(f) ==
  \E b \in DOMAIN f.body : \E i \in DOMAIN f.body[b] : f.body[b][i][1] = "ret"

\* C4: stubbing touches only listed functions that exist, and applying it
\* again to the module it left yields the same module, each listed function
\* that exists having one single-block body.
C4_Idempotent ==
  /\ \A n \in DOMAIN HelpersModule \ ListedNames :
       HelpersModule[n] = Function(HelpersModule[n].ret)
  /\ pass = 2 /\ pc = "link" =>
       /\ HelpersModule = firstPass
       /\ \A n \in DOMAIN HelpersModule \cap ListedNames :
            Len(HelpersModule[n].body) = 1

\* C5: once replaceFunctionWithRet has taken on a function whose return
\* type is neither void nor an integer type, the run is aborted and the
\* function has no return instruction.
C5_FailsLoudly ==
  \A n \in DOMAIN HelpersModule \cap RetStubbed :
    HelpersModule[n].ret = "other" /\ HelpersModule[n].linkage = "internal"
      => pc = "aborted" /\ ~HasRet(HelpersModule[n])

TrapPresent == DOMAIN HelpersModule \cap Range(AbortFunctionNames) # {}

BeyondTraps ==
  pc \in {"fixed", "link", "cleanup", "erase", "indirect", "markers",
          "debuginfo", "done", "serialized"}

\* C6: with a function of the trap list in the helpers module and no abort
\* function, no function of the trap list ever has its body replaced, the
\* trap loop does not get past the first such function and the run never
\* reaches linking; with no function of the trap list in the module, the
\* missing abort fails nothing.
C6_AbortRequired ==
  /\ TrapPresent /\ ~Defined(HelpersModule, "abort") =>
       /\ \A n \in DOMAIN HelpersModule \cap Range(AbortFunctionNames) :
            HelpersModule[n] = Function(HelpersModule[n].ret)
       /\ ~BeyondTraps
       /\ "link" \notin Range(finLog)
       /\ pc = "trap" =>
            \A i \in 1 .. (nameIdx - 1) :
              ~Defined(HelpersModule, AbortFunctionNames[i])
  /\ ~TrapPresent => failure # "abort != nullptr"

C6_Witness ==
  /\ failure = "abort != nullptr"
  /\ pc = "aborted"
  /\ TrapPresent

FinalOrder ==
  <<"stub", "link", "cleanup", "erase", "indirect", "markers", "debuginfo">>

\* C7: the finalization steps run at most once each and in the order
\* stubbing, linking, cleanup passes, deletion of the placeholder,
\* indirect jumps, markers, debug info; only after the registry has returned
\* no target; all of them when translate returns; none after a linking
\* failure.
C7_FinalizationOrder ==
  /\ IsPrefix(finLog, FinalOrder)
  /\ finLog # <<>> \/ BeyondTraps \/ pc \in {"strace", "noop", "trap"} =>
       Entry = NoBlock /\ pending = {} /\ region >= 1
  /\ Returned => finLog = FinalOrder
  /\ failure = "Linking failed" => finLog = <<"stub", "link">>
  /\ pc = "aborted" /\ failure # "Linking failed" => Len(finLog) = 0

C7_Witness == pc = "done" /\ finLog = FinalOrder /\ failure = "none"

\* C8: serialize with no copy in the debug sink and an output file that
\* cannot be opened reports the failure.
C8_OpenFailureReported ==
  serialized.done /\ ~serialized.copy /\ ~serialized.opened =>
    serialized.reported

====
